---- MODULE Spec2Model ----
(***************************************************************************)
(* Model of autogen_marketing_demo.py: MarketingStrategyWorkflow, a        *)
(* five-phase prompt-chaining pipeline over a chat-completion service.     *)
(*                                                                         *)
(* Text.  A Python str is modelled as a sequence of atoms; an atom is a    *)
(* literal segment of the source text or a piece of an input (a product    *)
(* name, a service response).  An f-string is the concatenation (\o) of    *)
(* its literal segments and its substituted values; "sub in s" is the      *)
(* search for a contiguous subsequence.  The two non-ASCII dashes of the   *)
(* source (lines 69 and 256) are written "-".                              *)
(*                                                                         *)
(* Dict.  self.outputs is a Python dict: insertion ordered, assignment to  *)
(* an existing key replaces the value in place, assignment to a new key    *)
(* appends.  It is modelled as a sequence of <<key, value>> pairs.         *)
(***************************************************************************)
EXTENDS Integers, Sequences, FiniteSets

VARIABLES
    configValid,    \* what Config.validate_setup() returns in this process
    deterministic,  \* whether the service's answer is a function of the prompts
    memo,           \* answers the deterministic service has already given
    pc,             \* position of the single thread of control
    phase,          \* phase being executed (0 outside a run)
    client,         \* self.client
    outputs,        \* self.outputs
    model,          \* self.model
    product_name,   \* self.product_name
    system_prompt,  \* local of the running phase method
    user_prompt,    \* local of the running phase method
    response,       \* local of the running phase method
    stdout,         \* what the current run has printed so far
    requests,       \* generation requests issued by the current run
    responses,      \* texts the service returned to the current run, in call order
    runLog,         \* events of the current run, in order
    written,        \* keys assigned by the current run
    atRunStart,     \* self.outputs as it was when the current run was entered
    runsOnRunner,   \* number of run() calls made on the current instance
    runs,           \* number of run() calls made in the process
    constructs,     \* number of constructor calls made in the process
    finals          \* (product, outputs) at the end of every run so far

vars == <<configValid, deterministic, memo, pc, phase, client, outputs, model,
          product_name, system_prompt, user_prompt, response, stdout, requests,
          responses, runLog, written, atRunStart, runsOnRunner, runs,
          constructs, finals>>

----------------------------------------------------------------------------
(* Bounds *)

\* run() calls a caller makes in one process; a caller constructs a new
\* instance only after it has run the one it has.
MaxRuns == 2

\* Product names a caller may pass to the constructor.
ProductNames == { <<"SmartHealth Fitness Band">>, <<"Widget", " ", "X">> }

\* Texts the generation service may return.
Responses == { <<"R">>, <<"S">> }

----------------------------------------------------------------------------
(* Text *)

None == <<"None">>          \* a marker outside the texts: no value
KeyError == <<"KeyError">>  \* a marker outside the texts: dict lookup failed
Fail == <<"Fail">>          \* a marker outside the texts: the call raised

Rule == "================================================================================"

\* key.upper() on the keys the program uses
Upper(key) ==
    CASE key = "market_research"   -> "MARKET_RESEARCH"
      [] key = "customer_analysis" -> "CUSTOMER_ANALYSIS"
      [] key = "strategy"          -> "STRATEGY"
      [] key = "campaigns"         -> "CAMPAIGNS"
      [] key = "quality"           -> "QUALITY"

----------------------------------------------------------------------------
(* Dict *)

Keys(d) == { d[i][1] : i \in 1..Len(d) }

Has(d, key) == key \in Keys(d)

\* d[key]; KeyError when the key is absent
Get(d, key) ==
    IF Has(d, key)
    THEN LET i == CHOOSE i \in 1..Len(d) : d[i][1] = key IN d[i][2]
    ELSE KeyError

\* Mutant: a list of pairs instead of a dict, every assignment appends.
DictAppend(d, key, value) == Append(d, <<key, value>>)

\* d[key] = value
DictSet(d, key, value) ==
    IF Has(d, key)
    THEN [i \in 1..Len(d) |-> IF d[i][1] = key THEN <<key, value>> ELSE d[i]]
    ELSE Append(d, <<key, value>>)

----------------------------------------------------------------------------
(* Phases *)

Phases == 1..5

Key(k) ==
    CASE k = 1 -> "market_research"
      [] k = 2 -> "customer_analysis"
      [] k = 3 -> "strategy"
      [] k = 4 -> "campaigns"
      [] k = 5 -> "quality"

AllKeys == { Key(k) : k \in Phases }

\* Outputs entries a phase's user prompt reads (lines 78, 106, 146-149, 192, 226-235).
Deps(k) ==
    CASE k = 1 -> {}
      [] k = 2 -> {"market_research"}
      [] k = 3 -> {"market_research", "customer_analysis"}
      [] k = 4 -> {"strategy"}
      [] k = 5 -> {"market_research", "customer_analysis", "strategy", "campaigns"}

system_prompt_1(p) ==
    <<"\nYou are a senior market research analyst.\nAnalyze the wearable technology market for the product: ">>
    \o p \o
    <<".\n\nProvide:\n- Top 3 competitors\n- Their positioning\n- Pricing\n- Key features\n- Market trends\nLimit to 150-200 words.\n">>

system_prompt_2 ==
    <<"\nYou are a consumer behavior expert.\nBased on the market research, identify:\n\n- Target customer segments\n- User pain points\n- Motivations\n- Purchase triggers\n- Unmet needs\n\nLimit to 150 words.\n">>

system_prompt_3(p) ==
    <<"\nYou are a marketing strategist.\nCreate a marketing strategy for: ">>
    \o p \o
    <<"\n\nInclude:\n- Positioning statement\n- Value proposition\n- Key messaging pillars\n- Channels to target\n- Pricing strategy\n- Brand voice direction\n\nLimit to 200 words.\n">>

system_prompt_4 ==
    <<"\nYou are a creative campaign director.\nDesign 3 marketing campaigns:\n\n1. Digital campaign\n2. Influencer campaign\n3. Content/SEO campaign\n\nInclude:\n- Goal\n- Target channels\n- Creative concept\n- KPIs\nKeep each campaign short and crisp.\n">>

system_prompt_5 ==
    <<"\nYou are a quality editor. Improve clarity, flow, and formatting.\nCombine all sections into a polished executive summary.\nMax 250 words.\n">>

\* Mutant: the product name is left out of the strategist's instructions.
SystemPromptNoProduct(k, p) ==
    CASE k = 1 -> system_prompt_1(p)
      [] k = 2 -> system_prompt_2
      [] k = 3 -> system_prompt_3(<<>>)
      [] k = 4 -> system_prompt_4
      [] k = 5 -> system_prompt_5

SystemPrompt(k, p) ==
    CASE k = 1 -> system_prompt_1(p)
      [] k = 2 -> system_prompt_2
      [] k = 3 -> system_prompt_3(p)
      [] k = 4 -> system_prompt_4
      [] k = 5 -> system_prompt_5

user_prompt_1 == <<"Provide competitor analysis.">>

user_prompt_2(o) ==
    <<"Here is the market research:\n">> \o Get(o, "market_research")
    \o <<"\n\nAnalyze customers.">>

user_prompt_3(o) ==
    <<"\nMarket Research:\n">> \o Get(o, "market_research")
    \o <<"\n\nCustomer Insights:\n">> \o Get(o, "customer_analysis")
    \o <<"\n">>

user_prompt_4(o) ==
    <<"\nBased on the marketing strategy:\n\n">> \o Get(o, "strategy")
    \o <<"\n\nGenerate the 3 campaigns.\n">>

user_prompt_5(o) ==
    <<"\nMarket Research:\n">> \o Get(o, "market_research")
    \o <<"\n\nCustomer Insights:\n">> \o Get(o, "customer_analysis")
    \o <<"\n\nMarketing Strategy:\n">> \o Get(o, "strategy")
    \o <<"\n\nCampaigns:\n">> \o Get(o, "campaigns")
    \o <<"\n">>

\* Whether evaluating phase k's user prompt on o raises KeyError.
Raises(k, o) == \E key \in Deps(k) : ~Has(o, key)

\* Mutant: the campaign prompt also quotes the market research.
UserPromptLeak(k, o) ==
    CASE k = 1 -> user_prompt_1
      [] k = 2 -> user_prompt_2(o)
      [] k = 3 -> user_prompt_3(o)
      [] k = 4 -> user_prompt_4(o) \o <<"\nMarket Research:\n">> \o Get(o, "market_research")
      [] k = 5 -> user_prompt_5(o)

UserPrompt(k, o) ==
    CASE k = 1 -> user_prompt_1
      [] k = 2 -> user_prompt_2(o)
      [] k = 3 -> user_prompt_3(o)
      [] k = 4 -> user_prompt_4(o)
      [] k = 5 -> user_prompt_5(o)

\* temperature, in tenths
Temperature(k) == IF k = 5 THEN 5 ELSE 7

MaxTokens(k) == IF k = 2 THEN 400 ELSE 500

Header(k) ==
    CASE k = 1 -> <<"PHASE 1: MARKET RESEARCH">>
      [] k = 2 -> <<"PHASE 2: CUSTOMER INSIGHTS">>
      [] k = 3 -> <<"PHASE 3: MARKETING STRATEGY">>
      [] k = 4 -> <<"PHASE 4: CAMPAIGN DESIGN">>
      [] k = 5 -> <<"PHASE 5: QUALITY REVIEW">>

\* The keyword arguments of client.chat.completions.create
Request(k, sys, usr, mdl) ==
    [ model       |-> mdl,
      temperature |-> Temperature(k),
      max_tokens  |-> MaxTokens(k),
      messages    |-> << [role |-> "system", content |-> sys],
                         [role |-> "user",   content |-> usr] >> ]

Event(e, k) == [ev |-> e, phase |-> k]

----------------------------------------------------------------------------
(* State machine *)

Init ==
    /\ configValid \in BOOLEAN
    /\ deterministic \in BOOLEAN
    /\ memo = {}
    /\ pc = "start"
    /\ phase = 0
    /\ client = None
    /\ outputs = None
    /\ model = None
    /\ product_name = None
    /\ system_prompt = None
    /\ user_prompt = None
    /\ response = None
    /\ stdout = <<>>
    /\ requests = <<>>
    /\ responses = <<>>
    /\ runLog = <<>>
    /\ written = {}
    /\ atRunStart = None
    /\ runsOnRunner = 0
    /\ runs = 0
    /\ constructs = 0
    /\ finals = {}

\* Under the deterministic service: what each finished run left in self.outputs.
Finished(done) ==
    IF deterministic
    THEN finals \cup {[product |-> product_name, outputs |-> outputs, done |-> done]}
    ELSE finals

\* Mutant: run() prints the summary in a finally clause.
AbortSummary ==
    /\ pc' = "summary"
    /\ phase' = 0
    /\ system_prompt' = None
    /\ user_prompt' = None
    /\ response' = None
    /\ finals' = finals

\* An exception leaves the phase method and run(); the locals are gone.
Abort ==
    /\ pc' = "aborted"
    /\ phase' = 0
    /\ system_prompt' = None
    /\ user_prompt' = None
    /\ response' = None
    /\ finals' = Finished(FALSE)

\* Mutant: the constructor goes on after a failed validation.
InitNoExit(p) ==
    /\ pc \in {"start", "idle", "aborted"}
    /\ constructs <= runs
    /\ constructs' = constructs + 1
    /\ stdout' = IF configValid THEN stdout
                 ELSE Append(stdout, <<"ERROR: Configuration validation failed!">>)
    /\ client' = <<"OpenAI">>
    /\ outputs' = <<>>
    /\ model' = <<"Config.OPENAI_MODEL">>
    /\ product_name' = p
    /\ runsOnRunner' = 0
    /\ pc' = "idle"
    /\ UNCHANGED <<configValid, deterministic, memo, phase, system_prompt,
                   user_prompt, response, requests, responses, runLog, written,
                   atRunStart, runs, finals>>

\* workflow = MarketingStrategyWorkflow(product_name=p)
__init__(p) ==
    /\ pc \in {"start", "idle", "aborted"}
    /\ constructs <= runs
    /\ constructs' = constructs + 1
    /\ IF ~configValid
       THEN /\ stdout' = Append(stdout, <<"ERROR: Configuration validation failed!">>)
            /\ pc' = "exited"
            /\ UNCHANGED <<client, outputs, model, product_name, runsOnRunner>>
       ELSE /\ client' = <<"OpenAI">>
            /\ outputs' = <<>>
            /\ model' = <<"Config.OPENAI_MODEL">>
            /\ product_name' = p
            /\ runsOnRunner' = 0
            /\ pc' = "idle"
            /\ UNCHANGED stdout
    /\ UNCHANGED <<configValid, deterministic, memo, phase, system_prompt,
                   user_prompt, response, requests, responses, runLog, written,
                   atRunStart, runs, finals>>

Construct == \E p \in ProductNames : __init__(p)

\* Mutant: run() starts from an empty dict.
RunClears ==
    /\ pc \in {"idle", "aborted"}
    /\ runs < MaxRuns
    /\ runs' = runs + 1
    /\ runsOnRunner' = runsOnRunner + 1
    /\ stdout' = << <<"\n", Rule>>,
                    <<"AUTOGEN MARKETING STRATEGY WORKFLOW">>,
                    <<Rule>>,
                    <<"Product: ">> \o product_name,
                    <<"Model: ">> \o model,
                    <<"Start Time: ", "datetime.now()", "\n">> >>
    /\ requests' = <<>>
    /\ responses' = <<>>
    /\ runLog' = <<>>
    /\ written' = {}
    /\ atRunStart' = outputs
    /\ outputs' = <<>>
    /\ phase' = 1
    /\ pc' = "enter"
    /\ UNCHANGED <<configValid, deterministic, memo, client, model,
                   product_name, system_prompt, user_prompt, response,
                   constructs, finals>>

\* run(), lines 36-41: the banner; the five phase calls follow.
run ==
    /\ pc \in {"idle", "aborted"}
    /\ runs < MaxRuns
    /\ runs' = runs + 1
    /\ runsOnRunner' = runsOnRunner + 1
    /\ stdout' = << <<"\n", Rule>>,
                    <<"AUTOGEN MARKETING STRATEGY WORKFLOW">>,
                    <<Rule>>,
                    <<"Product: ">> \o product_name,
                    <<"Model: ">> \o model,
                    <<"Start Time: ", "datetime.now()", "\n">> >>
    /\ requests' = <<>>
    /\ responses' = <<>>
    /\ runLog' = <<>>
    /\ written' = {}
    /\ atRunStart' = outputs
    /\ phase' = 1
    /\ pc' = "enter"
    /\ UNCHANGED <<configValid, deterministic, memo, client, outputs, model,
                   product_name, system_prompt, user_prompt, response,
                   constructs, finals>>

\* A phase method up to its request: the header and the two prompts.
Build(k) ==
    /\ pc = "enter"
    /\ phase = k
    /\ stdout' = stdout \o << <<"\n", Rule>>, Header(k), <<Rule>> >>
    /\ runLog' = Append(runLog, Event("header", k))
    /\ IF Raises(k, outputs)
       THEN Abort
       ELSE /\ system_prompt' = SystemPrompt(k, product_name)
            /\ user_prompt' = UserPrompt(k, outputs)
            /\ pc' = "built"
            /\ UNCHANGED <<phase, response, finals>>
    /\ UNCHANGED <<configValid, deterministic, memo, client, outputs, model,
                   product_name, requests, responses, written, atRunStart,
                   runsOnRunner, runs, constructs>>

\* What the service may answer to these prompts.
Answers(sys, usr) ==
    IF deterministic /\ \E m \in memo : m[1] = <<sys, usr>>
    THEN { m[2] : m \in { n \in memo : n[1] = <<sys, usr>> } }
    ELSE Responses \cup {Fail}

\* Mutant: a failure is swallowed and run() goes on to the next phase.
CreateSwallow(k) ==
    /\ pc = "built"
    /\ phase = k
    /\ \E out \in Answers(system_prompt, user_prompt) :
        /\ requests' = Append(requests,
                              Request(k, system_prompt, user_prompt, model))
        /\ runLog' = Append(runLog, Event("request", k))
        /\ memo' = IF deterministic
                   THEN memo \cup {<< <<system_prompt, user_prompt>>, out >>}
                   ELSE memo
        /\ IF out = Fail
           THEN /\ IF k < 5
                   THEN phase' = k + 1 /\ pc' = "enter"
                   ELSE phase' = 0 /\ pc' = "summary"
                /\ system_prompt' = None
                /\ user_prompt' = None
                /\ UNCHANGED <<response, responses, finals>>
           ELSE /\ response' = out
                /\ responses' = Append(responses, out)
                /\ pc' = "responded"
                /\ UNCHANGED <<phase, system_prompt, user_prompt, finals>>
    /\ UNCHANGED <<configValid, deterministic, client, outputs, model,
                   product_name, stdout, written, atRunStart, runsOnRunner,
                   runs, constructs>>

\* Mutant: a failed call is sent once more before the exception propagates.
CreateRetry(k) ==
    /\ pc = "built"
    /\ phase = k
    /\ \E out \in Answers(system_prompt, user_prompt) :
        /\ requests' = Append(requests,
                              Request(k, system_prompt, user_prompt, model))
        /\ runLog' = Append(runLog, Event("request", k))
        /\ memo' = IF deterministic
                   THEN memo \cup {<< <<system_prompt, user_prompt>>, out >>}
                   ELSE memo
        /\ IF out = Fail
           THEN IF runLog # <<>> /\ runLog[Len(runLog)] = Event("request", k)
                THEN /\ Abort
                     /\ UNCHANGED responses
                ELSE UNCHANGED <<pc, phase, system_prompt, user_prompt,
                                 response, responses, finals>>
           ELSE /\ response' = out
                /\ responses' = Append(responses, out)
                /\ pc' = "responded"
                /\ UNCHANGED <<phase, system_prompt, user_prompt, finals>>
    /\ UNCHANGED <<configValid, deterministic, client, outputs, model,
                   product_name, stdout, written, atRunStart, runsOnRunner,
                   runs, constructs>>

\* response = self.client.chat.completions.create(...)
Create(k) ==
    /\ pc = "built"
    /\ phase = k
    /\ \E out \in Answers(system_prompt, user_prompt) :
        /\ requests' = Append(requests,
                              Request(k, system_prompt, user_prompt, model))
        /\ runLog' = Append(runLog, Event("request", k))
        /\ memo' = IF deterministic
                   THEN memo \cup {<< <<system_prompt, user_prompt>>, out >>}
                   ELSE memo
        /\ IF out = Fail
           THEN /\ Abort
                /\ UNCHANGED responses
           ELSE /\ response' = out
                /\ responses' = Append(responses, out)
                /\ pc' = "responded"
                /\ UNCHANGED <<phase, system_prompt, user_prompt, finals>>
    /\ UNCHANGED <<configValid, deterministic, client, outputs, model,
                   product_name, stdout, written, atRunStart, runsOnRunner,
                   runs, constructs>>

\* self.outputs[key] = response.choices[0].message.content
Store(k) ==
    /\ pc = "responded"
    /\ phase = k
    /\ outputs' = DictSet(outputs, Key(k), response)
    /\ written' = written \cup {Key(k)}
    /\ runLog' = Append(runLog, Event("store", k))
    /\ pc' = "stored"
    /\ UNCHANGED <<configValid, deterministic, memo, phase, client, model,
                   product_name, system_prompt, user_prompt, response, stdout,
                   requests, responses, atRunStart, runsOnRunner, runs,
                   constructs, finals>>

\* print(self.outputs[key]); the method returns and run() goes on.
Emit(k) ==
    /\ pc = "stored"
    /\ phase = k
    /\ stdout' = Append(stdout, Get(outputs, Key(k)))
    /\ runLog' = Append(runLog, Event("print", k))
    /\ system_prompt' = None
    /\ user_prompt' = None
    /\ response' = None
    /\ IF k < 5
       THEN phase' = k + 1 /\ pc' = "enter"
       ELSE phase' = 0 /\ pc' = "summary"
    /\ UNCHANGED <<configValid, deterministic, memo, client, outputs, model,
                   product_name, requests, responses, written, atRunStart,
                   runsOnRunner, runs, constructs, finals>>

phase_market_research == Build(1) \/ Create(1) \/ Store(1) \/ Emit(1)

phase_customer_analysis == Build(2) \/ Create(2) \/ Store(2) \/ Emit(2)

phase_strategy == Build(3) \/ Create(3) \/ Store(3) \/ Emit(3)

phase_campaigns == Build(4) \/ Create(4) \/ Store(4) \/ Emit(4)

phase_quality == Build(5) \/ Create(5) \/ Store(5) \/ Emit(5)

RECURSIVE SummaryLinesReversed(_)
\* Mutant: the summary walks the entries last to first.
SummaryLinesReversed(d) ==
    IF d = <<>> THEN <<>>
    ELSE SummaryLinesReversed(Tail(d))
         \o << <<"\n--- ", Upper(Head(d)[1]), " ---\n">>, Head(d)[2] >>

RECURSIVE SummaryLines(_)
\* The two print calls per entry of the loop over self.outputs.items()
SummaryLines(d) ==
    IF d = <<>> THEN <<>>
    ELSE << <<"\n--- ", Upper(Head(d)[1]), " ---\n">>, Head(d)[2] >>
         \o SummaryLines(Tail(d))

SummaryHead == << <<"\n", Rule>>, <<"FINAL SUMMARY - MARKETING STRATEGY">>, <<Rule>> >>

print_summary ==
    /\ pc = "summary"
    /\ stdout' = stdout \o SummaryHead \o SummaryLines(outputs)
    /\ runLog' = Append(runLog, Event("summary", 0))
    /\ pc' = "idle"
    /\ finals' = Finished(TRUE)
    /\ UNCHANGED <<configValid, deterministic, memo, phase, client, outputs,
                   model, product_name, system_prompt, user_prompt, response,
                   requests, responses, written, atRunStart, runsOnRunner,
                   runs, constructs>>

Next ==
    \/ Construct
    \/ run
    \/ phase_market_research
    \/ phase_customer_analysis
    \/ phase_strategy
    \/ phase_campaigns
    \/ phase_quality
    \/ print_summary

Spec == Init /\ [][Next]_vars

----------------------------------------------------------------------------
(* Observations used by the properties *)

\* sub in s  (str.__contains__)
Contains(s, sub) ==
    \E i \in 0..(Len(s) - Len(sub)) :
        \A j \in 1..Len(sub) : s[i + j] = sub[j]

\* d without its entry for key: a dict that differs from d in that entry only
DictDel(d, key) == SelectSeq(d, LAMBDA e : e[1] # key)

\* Positions of an event in the current run's log.
At(e, k) == { i \in 1..Len(runLog) : runLog[i] = Event(e, k) }

\* The event is in the current run's log.
Logged(e, k) == \E i \in 1..Len(runLog) : runLog[i] = Event(e, k)

\* The event the last step of the run logged.  The log only grows during a
\* run, one event a step, so every event of a run is the last one in the
\* state that step reaches: what holds of Last in every reachable state
\* holds of every event against the events before it.
Last == IF runLog = <<>> THEN Event("none", 0) ELSE runLog[Len(runLog)]

\* The current run returned from print_summary.
Completed == runLog # <<>> /\ runLog[Len(runLog)] = Event("summary", 0)

\* Control is inside run().
Running == pc \in {"enter", "built", "responded", "stored", "summary"}

\* The entries the first k responses of the current run make, in phase order.
Entries(k) == [i \in 1..k |-> <<Key(i), responses[i]>>]

----------------------------------------------------------------------------
(* C1 *)

\* C1: when a run on a freshly constructed runner has completed, self.outputs
\* holds exactly the five responses in call order under the keys
\* market_research, customer_analysis, strategy, campaigns, quality, in that
\* insertion order, and the last ten lines print_summary printed are the
\* upper-cased key and the value of each entry in that same order.
PhaseOrderFixed ==
    (runsOnRunner = 1 /\ pc = "idle" /\ Completed) =>
        /\ Len(responses) = 5
        /\ Len(outputs) = 5
        /\ \A i \in 1..5 : outputs[i] = <<Key(i), responses[i]>>
        /\ LET base == Len(stdout) - 10 IN
             /\ base >= 3
             /\ SubSeq(stdout, base - 2, base) = SummaryHead
             /\ \A i \in 1..5 :
                  /\ stdout[base + 2 * i - 1]
                       = <<"\n--- ", Upper(Key(i)), " ---\n">>
                  /\ stdout[base + 2 * i] = responses[i]

PhaseOrderFixedWitness ==
    /\ runsOnRunner = 1 /\ pc = "idle" /\ Completed
    /\ responses = << <<"R">>, <<"S">>, <<"S">>, <<"R">>, <<"S">> >>

----------------------------------------------------------------------------
(* C2 *)

\* C2: when a generation request is issued, the store of every Outputs entry
\* its phase reads is already in the log of that same run; and while a phase
\* holds built prompts every entry it read has been written by the current run.
DependenciesWritten ==
    /\ Last.ev = "request" =>
         \A k \in Phases :
            Key(k) \in Deps(Last.phase) => Logged("store", k)
    /\ pc \in {"built", "responded", "stored"} => Deps(phase) \subseteq written

\* A second run on the same instance, whose Outputs still holds the earlier
\* run's quality entry, has issued the phase-5 request.
DependenciesWrittenWitness ==
    /\ runsOnRunner = 2
    /\ Has(atRunStart, "quality")
    /\ pc = "responded"
    /\ phase = 5

----------------------------------------------------------------------------
(* C3 *)

\* C3: the user prompt a phase builds and sends depends on exactly the entries
\* of its dependency set: changing or deleting any other entry of Outputs
\* (in particular an entry of a later phase) leaves it the same, changing
\* any entry of the set changes it, and the request carries that prompt.
PromptReadsExactlyDeps ==
    pc \in {"built", "responded"} =>
        /\ \A key \in AllKeys \ Deps(phase) :
             /\ UserPrompt(phase, DictDel(outputs, key)) = user_prompt
             /\ \A v \in Responses :
                  UserPrompt(phase, DictSet(outputs, key, v)) = user_prompt
        /\ \A key \in Deps(phase) :
             \A v \in Responses \ {Get(outputs, key)} :
                UserPrompt(phase, DictSet(outputs, key, v)) # user_prompt
        /\ \A key \in Deps(phase) : Contains(user_prompt, Get(outputs, key))
        /\ pc = "responded" =>
             requests[Len(requests)].messages[2].content = user_prompt

\* Phase 4 has built its prompt while market_research, customer_analysis and
\* strategy hold differing texts and a later entry is left from an earlier run.
PromptReadsExactlyDepsWitness ==
    /\ pc = "built"
    /\ phase = 4
    /\ Get(outputs, "market_research") # Get(outputs, "strategy")
    /\ Get(outputs, "customer_analysis") # Get(outputs, "strategy")
    /\ Has(outputs, "quality")

----------------------------------------------------------------------------
(* C4 *)

\* C4 as stated: when a run has aborted on the failed call of phase k,
\* self.outputs holds the entries of phases 1..k-1 only, the log shows no
\* event of a phase after k, and the run issued exactly k requests.
FailureLeavesEarlierEntriesOnly ==
    pc = "aborted" =>
        LET k == Len(requests) IN
          /\ k \in Phases
          /\ runLog[Len(runLog)] = Event("request", k)
          /\ \A i \in 1..Len(runLog) : runLog[i].phase <= k
          /\ Keys(outputs) = { Key(i) : i \in 1..(k - 1) }
          /\ outputs = Entries(k - 1)

\* C4 amended: when a run has aborted, it aborted on the failed call of some
\* phase k: the run issued exactly k requests, one for each of the phases
\* 1..k, its log shows no event of a phase after k, and it wrote the entries
\* of phases 1..k-1 only, each holding the response to its call.  In the first
\* run on an instance self.outputs then holds those entries only, in phase
\* order; on an instance that was run before, self.outputs also still holds,
\* unchanged, every entry of the phases k..5 the earlier runs left.
FailureAborts ==
    pc = "aborted" =>
        LET k == Len(requests) IN
          /\ k \in Phases
          /\ runLog[Len(runLog)] = Event("request", k)
          /\ Len(responses) = k - 1
          /\ \A i \in Phases : Logged("request", i) <=> i <= k
          /\ \A i \in 1..Len(runLog) : runLog[i].phase <= k
          /\ written = { Key(i) : i \in 1..(k - 1) }
          /\ \A i \in 1..(k - 1) : Get(outputs, Key(i)) = responses[i]
          /\ Keys(outputs) = Keys(atRunStart) \cup written
          /\ \A i \in k..5 :
               Has(atRunStart, Key(i)) =>
                   Get(outputs, Key(i)) = Get(atRunStart, Key(i))
          /\ runsOnRunner = 1 =>
               /\ outputs = Entries(k - 1)
               /\ Keys(outputs) = { Key(i) : i \in 1..(k - 1) }

\* The spec's case, the service failed on phase 3, in a second run on an
\* instance whose first run completed: five entries remain, two of them new.
FailureAbortsWitness ==
    /\ pc = "aborted"
    /\ runsOnRunner = 2
    /\ Len(requests) = 3
    /\ Len(atRunStart) = 5
    /\ Len(outputs) = 5
    /\ written = {"market_research", "customer_analysis"}

----------------
(* C5 *)

\* C5: when the configuration check fails the constructor prints the error and
\* the process exits: control never enters a phase, no request is issued, no
\* client is constructed and self.outputs is never created or written.
ConfigGate ==
    ~configValid =>
        /\ pc \in {"start", "exited"}
        /\ requests = <<>>
        /\ runLog = <<>>
        /\ runs = 0
        /\ client = None
        /\ outputs = None
        /\ written = {}
        /\ pc = "exited" =>
             stdout = << <<"ERROR: Configuration validation failed!">> >>

ConfigGateWitness == pc = "exited" /\ ~configValid /\ constructs = 1

----------------------------------------------------------------------------
(* C6 *)

\* C6: under a service whose answer is a function of the prompts, any two
\* finished runs for the same product left the same self.outputs, whether the
\* later run used a new instance or the same one.
RerunIdempotent ==
    deterministic =>
        \A f \in finals : \A g \in finals :
            f.product = g.product => f.outputs = g.outputs /\ f.done = g.done

\* A second run on the same instance has completed under the deterministic
\* service, with answers that differ between phases.
RerunIdempotentWitness ==
    /\ deterministic
    /\ runsOnRunner = 2
    /\ pc = "idle"
    /\ Completed
    /\ Len(outputs) = 5
    /\ outputs[1][2] # outputs[2][2]
    /\ \E f \in finals : f.done /\ f.outputs = outputs

----------------------------------------------------------------------------
(* C7 *)

\* C7 as stated: whenever the first phase of a run starts self.outputs is
\* empty, and a store never replaces an existing entry.
RunStartsEmpty ==
    /\ (pc = "enter" /\ phase = 1) => outputs = <<>>
    /\ pc = "responded" => ~Has(outputs, Key(phase))

\* C7 amended: the constructor, not run, empties self.outputs.  The first run
\* on an instance starts its first phase with no entry; a later run on the same
\* instance starts with the entries the earlier run left, keeps each of them
\* until its own phase replaces it in place, and no run writes a key twice:
\* an entry a run has written keeps the response it was given.
OutputsInitOnceAtConstruction ==
    /\ (pc = "idle" /\ runsOnRunner = 0) => outputs = <<>>
    /\ (pc = "enter" /\ phase = 1) =>
         /\ outputs = atRunStart
         /\ runsOnRunner = 1 => outputs = <<>>
    /\ (Running \/ pc = "aborted") =>
         /\ \A key \in Keys(atRunStart) \ written :
               Get(outputs, key) = Get(atRunStart, key)
         /\ \A i \in 1..Len(responses) :
               Key(i) \in written => Get(outputs, Key(i)) = responses[i]
         /\ Keys(outputs) = Keys(atRunStart) \cup written
    /\ pc = "responded" => Key(phase) \notin written

\* A second run on the same instance has replaced the market_research entry
\* by a different text while the earlier run's other entries remain.
OutputsInitOnceAtConstructionWitness ==
    /\ runsOnRunner = 2
    /\ pc = "stored"
    /\ phase = 1
    /\ Len(atRunStart) = 5
    /\ Get(outputs, "market_research") # Get(atRunStart, "market_research")

----------------------------------------------------------------------------
(* C8 *)

\* C8: a request is logged only as the first request of its phase and right
\* after that phase's header, so each phase sends at most one request and none
\* is sent again after a failure; the n-th request of a run is the request of
\* phase n; the requests never outnumber the phases started; all requests but
\* possibly the last were answered, and an unanswered one ended the run; a
\* completed run issued exactly five; a run takes at most 21 logged steps.
OneRequestPerPhase ==
    /\ Last.ev = "request" =>
         /\ Cardinality(At("request", Last.phase)) = 1
         /\ Len(runLog) >= 2
         /\ runLog[Len(runLog) - 1] = Event("header", Last.phase)
         /\ Last.phase = Len(requests)
    /\ Len(requests) = Cardinality({ i \in 1..Len(runLog) : runLog[i].ev = "request" })
    /\ Len(requests) <= Cardinality({ i \in 1..Len(runLog) : runLog[i].ev = "header" })
    /\ Len(responses) <= Len(requests)
    /\ Len(requests) <= Len(responses) + 1
    /\ Len(requests) = Len(responses) + 1 => ~Running
    /\ Completed => Len(requests) = 5 /\ Len(responses) = 5
    /\ Len(runLog) <= 21

\* A run in which the service always answered has returned.
OneRequestPerPhaseWitness ==
    /\ Completed
    /\ pc = "idle"
    /\ Len(requests) = 5
    /\ Len(runLog) = 21

----------------------------------------------------------------------------
(* C9 *)

\* C9: in every request of a run the system prompt of phases 1 and 3 contains
\* the instance's product name and is the prompt of no other product name,
\* and the system prompt of phases 2, 4 and 5 is the same text for every
\* product name.
ProductInSystemPrompt ==
    runsOnRunner >= 1 =>
        \A i \in 1..Len(requests) :
            LET sys == requests[i].messages[1].content IN
              /\ requests[i].messages[1].role = "system"
              /\ i \in {1, 3} =>
                   /\ Contains(sys, product_name)
                   /\ \A p \in ProductNames \ {product_name} :
                         SystemPrompt(i, p) # sys
              /\ i \in {2, 4, 5} =>
                   \A p \in ProductNames : SystemPrompt(i, p) = sys

\* The spec's scenario: product "Widget X", phase 3 has sent its request.
ProductInSystemPromptWitness ==
    /\ product_name = <<"Widget", " ", "X">>
    /\ runsOnRunner >= 1
    /\ Len(requests) >= 3
    /\ Contains(requests[1].messages[1].content, <<"Widget", " ", "X">>)

----------------------------------------------------------------------------
(* C10 *)

\* C10: the summary is logged only when the store and the print of all five
\* phases are in the log of the same run, and never in a run that aborted; a
\* phase's print is logged after its store, its store after its request, and
\* the request of phase k+1 after the print of phase k; the summary heading is
\* on stdout exactly when the summary was logged, and the line a phase printed
\* last is the entry it stored.
SummaryLast ==
    /\ Last.ev = "summary" =>
         \A k \in Phases : Logged("store", k) /\ Logged("print", k)
    /\ pc = "aborted" => ~Logged("summary", 0)
    /\ Last.ev = "print" =>
         /\ Logged("store", Last.phase)
         /\ stdout[Len(stdout)] = Get(outputs, Key(Last.phase))
    /\ Last.ev = "store" => Logged("request", Last.phase)
    /\ (Last.ev = "request" /\ Last.phase > 1) => Logged("print", Last.phase - 1)
    /\ Contains(stdout, SummaryHead) <=> Logged("summary", 0)

\* The summary has been printed at the end of a completed run.
SummaryLastWitness ==
    /\ Logged("summary", 0)
    /\ pc = "idle"
    /\ Contains(stdout, SummaryHead)
    /\ Cardinality(At("print", 5)) = 1

====
